---- MODULE Spec2Model ----
(***************************************************************************)
(* A model of kakurasu_solver.py: the row expander `naturals`, the column  *)
(* consistency check `state` and the recursive backtracking `solve`, run   *)
(* by `main` on an all-false board.  Boards are list objects held in a     *)
(* heap and referred to by reference, so that copying and aliasing are     *)
(* visible; rows and columns are 0-indexed as in the source, and the       *)
(* sequences of TLA+ are read at index + 1.                                *)
(***************************************************************************)
EXTENDS Integers, Sequences, FiniteSets, TLC

VARIABLES N, hor, ver, heap, stack, ret, solution, pc, target, depth, terms, out

vars == <<N, hor, ver, heap, stack, ret, solution, pc, target, depth, terms, out>>

\* Bounds of the explored inputs: the dimension of the board solve runs on,
\* the totals of its row targets and of its column targets; the length and
\* the target naturals is called with on its own; the dimension of the
\* boards state is called with on its own.
MaxN == 3
MaxRowTotal == 5
MaxColTotal == 3
MaxDepth == 4
MaxSum == 11
MaxDim == 2

\* The reference that stands for Python's None; heap references start at 1.
None == 0

----------------------------------------------------------------------------
\* naturals (the row expander)

RECURSIVE Bin(_)
\* The binary digits of i >= 0, most significant first: the 'b' presentation type.
Bin(i) == IF i < 2 THEN << IF i = 1 THEN "1" ELSE "0" >>
          ELSE Bin(i \div 2) \o << IF i % 2 = 1 THEN "1" ELSE "0" >>

RECURSIVE Pad(_, _, _)
\* Right-aligns s in a field of the given width.
Pad(s, width, fill) == IF Len(s) >= width THEN s ELSE Pad(<<fill>> \o s, width, fill)

\* format(i, '{}b'.format(d)): for d >= 1 the spec is '<d>b', width d filled
\* with spaces; for d = 0 the spec is '0b', the zero-fill flag and no width.
format(i, d) == Pad(Bin(i), d, IF d = 0 THEN "0" ELSE " ")

RECURSIVE Pow2(_)
Pow2(n) == IF n = 0 THEN 1 ELSE 2 * Pow2(n - 1)

RECURSIVE BinarySumSkew(_, _, _)
BinarySumSkew(binary, d, j) ==
    IF j >= Len(binary) THEN 0
    ELSE (IF binary[j + 1] = "1" THEN d - j + 1 ELSE 0) + BinarySumSkew(binary, d, j + 1)

RECURSIVE BinarySum(_, _, _)
\* The inner loop of naturals from index j on: sum += depth - j for every '1'.
BinarySum(binary, d, j) ==
    IF j >= Len(binary) THEN 0
    ELSE (IF binary[j + 1] = "1" THEN d - j ELSE 0) + BinarySum(binary, d, j + 1)

\* [x == '1' for x in binary[::-1]]
Pattern(binary) == [k \in 1..Len(binary) |-> binary[Len(binary) + 1 - k] = "1"]

RECURSIVE NaturalsFrom(_, _, _, _)
\* The loop `for i in range(target, truth)` from value i on, with the terms so far.
NaturalsFrom(i, t, d, acc) ==
    IF i >= Pow2(d) THEN acc
    ELSE LET binary == format(i, d)
         IN  NaturalsFrom(i + 1, t, d,
                 IF BinarySum(binary, d, 0) = t THEN Append(acc, Pattern(binary)) ELSE acc)

naturals(t, d) == NaturalsFrom(t, t, d, <<>>)

----------------------------------------------------------------------------
\* state (the consistency check)

RECURSIVE ColSum(_, _, _)
\* The inner loop of state for column i from row j on: vers += j + 1 when board[j][i].
ColSum(board, i, j) ==
    IF j >= Len(board[i + 1]) THEN 0
    ELSE (IF board[j + 1][i + 1] THEN j + 1 ELSE 0) + ColSum(board, i, j + 1)

RECURSIVE StateFrom(_, _, _)
\* The outer loop of state from column i on: the first column that differs decides.
StateFrom(board, v, i) ==
    IF i >= Len(board) THEN <<0>>
    ELSE LET vers == ColSum(board, i, 0)
         IN  IF vers # v[i + 1] THEN <<vers - v[i + 1]>> ELSE StateFrom(board, v, i + 1)

\* state(board, hor, ver) on the board behind reference b: <<n>> for the
\* integer n, <<>> for the None a None board falls through to.
state(h, b, v) == IF b # None THEN StateFrom(h[b], v, 0) ELSE <<>>

----------------------------------------------------------------------------
\* solve and main

AllFalse(n) == [r \in 1..n |-> [c \in 1..n |-> FALSE]]

Top == stack[Len(stack)]

deepcopyAlias(h, b) == [heap |-> h, ref |-> b]

\* deepcopy(board): a new list object with the same cell values.
deepcopy(h, b) == [heap |-> Append(h, h[b]), ref |-> Len(h) + 1]

SetRowFirst(h, b, row, i) == [h EXCEPT ![b] = [@ EXCEPT ![1] = i]]

\* newboard[row] = i
SetRow(h, b, row, i) == [h EXCEPT ![b] = [@ EXCEPT ![row + 1] = i]]

PrunesBelow(cur) == cur[1] < 0

\* curstate > 0
Prunes(cur) == cur[1] > 0

NextRowSkip(row) == row + 2

\* row+1, the row argument of the recursive call
NextRow(row) == row + 1

\* row < len(board) - 1
Recurse(row, board) == row < Len(board) - 1

SolvedLoose(h, b) == state(h, b, ver) # <<>> /\ state(h, b, ver)[1] <= 0

\* state(newboard, hor, ver) == 0
Solved(h, b) == state(h, b, ver) = <<0>>

Frame(b, row, h) ==
    [board |-> b, row |-> row, pc |-> "enter", choices |-> <<>>, idx |-> 0,
     newboard |-> None, entry |-> h[b]]

\* `return v` of the running call.
Return(v) ==
    /\ stack' = SubSeq(stack, 1, Len(stack) - 1)
    /\ ret' = v

RECURSIVE Total(_, _)
Total(s, k) == IF k = 0 THEN 0 ELSE s[k] + Total(s, k - 1)

\* The sequences of n non-negative targets that add up to at most total.
TargetSeqs(n, total) == {s \in [1..n -> 0..total] : Total(s, n) <= total}

Init ==
    /\ N \in 0..MaxN
    /\ hor \in TargetSeqs(N, MaxRowTotal)
    /\ ver \in TargetSeqs(N, MaxColTotal)
    /\ heap = << AllFalse(N) >>
    /\ stack = <<>>
    /\ ret = None
    /\ solution = None
    /\ pc = "main"
    /\ target = 0 /\ depth = 0 /\ terms = <<>> /\ out = <<>>

\* main: solution = solve(board, hor, ver, 0), the call.
MainCall ==
    /\ pc = "main"
    /\ stack' = << Frame(1, 0, heap) >>
    /\ pc' = "solve"
    /\ UNCHANGED <<N, hor, ver, heap, ret, solution, target, depth, terms, out>>

\* The running call of solve is at the given position.
At(pos) == pc = "solve" /\ stack # <<>> /\ Top.pc = pos

\* solve, from its entry to the start of the loop over the choices.
SolveEnter ==
    /\ At("enter")
    /\ LET f == Top
           cur == state(heap, f.board, ver)
       IN  IF f.board = None THEN Return(None)
           ELSE IF Prunes(cur) THEN Return(None)
           ELSE IF cur = <<0>> THEN Return(f.board)
           ELSE /\ stack' = [stack EXCEPT ![Len(stack)] =
                        [f EXCEPT !.choices = naturals(hor[f.row + 1], Len(heap[f.board][f.row + 1])),
                                  !.idx = 1, !.pc = "loop"]]
                /\ ret' = ret
    /\ UNCHANGED <<N, hor, ver, heap, solution, pc, target, depth, terms, out>>

\* One iteration of the loop up to the recursive call, or through the
\* final test when the current row is the last one.
SolveTry ==
    /\ At("loop") /\ Top.idx <= Len(Top.choices)
    /\ LET f == Top
           c == deepcopy(heap, f.board)
           h2 == SetRow(c.heap, c.ref, f.row, f.choices[f.idx])
       IN  /\ heap' = h2
           /\ IF Recurse(f.row, h2[f.board])
              THEN /\ stack' = Append([stack EXCEPT ![Len(stack)] =
                                   [f EXCEPT !.newboard = c.ref, !.pc = "wait"]],
                               Frame(c.ref, NextRow(f.row), h2))
                   /\ ret' = ret
              ELSE IF Solved(h2, c.ref) THEN Return(c.ref)
              ELSE /\ stack' = [stack EXCEPT ![Len(stack)] =
                                   [f EXCEPT !.newboard = c.ref, !.idx = f.idx + 1]]
                   /\ ret' = ret
    /\ UNCHANGED <<N, hor, ver, solution, pc, target, depth, terms, out>>

\* The recursive call has returned: newboard = its result, then the final test.
SolveResume ==
    /\ At("wait")
    /\ LET f == Top
       IN  IF Solved(heap, ret) THEN Return(ret)
           ELSE /\ stack' = [stack EXCEPT ![Len(stack)] =
                                [f EXCEPT !.newboard = ret, !.idx = f.idx + 1, !.pc = "loop"]]
                /\ ret' = ret
    /\ UNCHANGED <<N, hor, ver, heap, solution, pc, target, depth, terms, out>>

\* The loop has run out of choices: solve falls off its end and returns None.
SolveExhaust ==
    /\ At("loop") /\ Top.idx > Len(Top.choices)
    /\ Return(None)
    /\ UNCHANGED <<N, hor, ver, heap, solution, pc, target, depth, terms, out>>

\* main: the top-level call has returned.
MainReturn ==
    /\ pc = "solve" /\ stack = <<>>
    /\ solution' = ret
    /\ pc' = "done"
    /\ UNCHANGED <<N, hor, ver, heap, stack, ret, target, depth, terms, out>>

Next == MainCall \/ SolveEnter \/ SolveTry \/ SolveResume \/ SolveExhaust \/ MainReturn

Spec == Init /\ [][Next]_vars

----------------------------------------------------------------------------
\* naturals on its own: the inputs are drawn at the start, one call is made.

InitNaturals ==
    /\ target \in 0..MaxSum
    /\ depth \in 0..MaxDepth
    /\ terms = <<>>
    /\ pc = "naturals"
    /\ N = 0 /\ hor = <<>> /\ ver = <<>> /\ heap = <<>> /\ stack = <<>>
    /\ ret = None /\ solution = None /\ out = <<>>

CallNaturals ==
    /\ pc = "naturals"
    /\ terms' = naturals(target, depth)
    /\ pc' = "naturals_done"
    /\ UNCHANGED <<N, hor, ver, heap, stack, ret, solution, target, depth, out>>

NextNaturals == CallNaturals

SpecNaturals == InitNaturals /\ [][NextNaturals]_vars

----------------------------------------------------------------------------
\* state on its own: any square board of booleans against any column targets.

InitState ==
    /\ N \in 0..MaxDim
    /\ ver \in TargetSeqs(N, MaxColTotal)
    /\ hor = [r \in 1..N |-> 0]
    /\ heap \in {<<b>> : b \in [1..N -> [1..N -> BOOLEAN]]}
    /\ out = <<>>
    /\ pc = "state"
    /\ stack = <<>> /\ ret = None /\ solution = None
    /\ target = 0 /\ depth = 0 /\ terms = <<>>

CallState ==
    /\ pc = "state"
    /\ out' = state(heap, 1, ver)
    /\ pc' = "state_done"
    /\ UNCHANGED <<N, hor, ver, heap, stack, ret, solution, target, depth, terms>>

NextState == CallState

SpecState == InitState /\ [][NextState]_vars

----------------------------------------------------------------------------
\* The vocabulary of the properties: weighted sums as the puzzle defines them.

RECURSIVE WeightedUpTo(_, _)
WeightedUpTo(v, k) == IF k = 0 THEN 0 ELSE (IF v[k] THEN k ELSE 0) + WeightedUpTo(v, k - 1)

\* The weighted sum of a row: position k (1-indexed) contributes k when filled.
Weighted(v) == WeightedUpTo(v, Len(v))

RECURSIVE ColWeightedUpTo(_, _, _)
ColWeightedUpTo(b, c, r) ==
    IF r = 0 THEN 0 ELSE (IF b[r][c] THEN r ELSE 0) + ColWeightedUpTo(b, c, r - 1)

\* The weighted sum of column c (1-indexed) of board b.
ColWeighted(b, c) == ColWeightedUpTo(b, c, Len(b))

ColsMatch(b) == \A c \in 1..Len(b) : ColWeighted(b, c) = ver[c]

ExceedsAny(b) == \E c \in 1..Len(b) : ColWeighted(b, c) > ver[c]

BelowAny(b) == \E c \in 1..Len(b) : ColWeighted(b, c) < ver[c]

FullyValid(b) ==
    /\ Len(b) = N
    /\ \A r \in 1..N : Len(b[r]) = N /\ Weighted(b[r]) = hor[r]
    /\ ColsMatch(b)

RowPatterns(t, n) == {v \in [1..n -> BOOLEAN] : Weighted(v) = t}

RECURSIVE Fillings(_)
\* The boards of k rows whose row r has weighted sum hor[r].
Fillings(k) ==
    IF k = 0 THEN {<<>>}
    ELSE {Append(b, v) : b \in Fillings(k - 1), v \in RowPatterns(hor[k], N)}

SolutionExists == \E b \in Fillings(N) : ColsMatch(b)

Elems(s) == {s[k] : k \in 1..Len(s)}

----------------------------------------------------------------------------
\* C1: a board returned by the top-level solve satisfies every row target
\* and every column target.
C1_ReturnedBoardFullyValid ==
    (pc = "done" /\ solution # None) => FullyValid(heap[solution])

\* C2: when some board satisfies all row and column targets the top-level
\* solve returns a board, so None means that no such board exists; for
\* N = 0 the result is the empty board.
C2_Complete ==
    pc = "done" =>
        /\ SolutionExists => solution # None
        /\ N = 0 => (solution # None /\ heap[solution] = <<>>)

C2_Witness ==
    /\ pc = "done" /\ N = 3 /\ SolutionExists /\ solution # None
    /\ hor[1] = 3 /\ heap[solution][1] = <<FALSE, FALSE, TRUE>>

\* C3: for length >= 1, naturals returns exactly the vectors of that length
\* whose weighted sum is the target, each once; none when the target is
\* above length*(length+1)/2, and the all-false vector when the target is 0.
C3_NaturalsExact ==
    (pc = "naturals_done" /\ depth >= 1) =>
        /\ \A k \in 1..Len(terms) : Len(terms[k]) = depth /\ Weighted(terms[k]) = target
        /\ \A v \in [1..depth -> BOOLEAN] : Weighted(v) = target => v \in Elems(terms)
        /\ \A j, k \in 1..Len(terms) : j # k => terms[j] # terms[k]
        /\ 2 * target > depth * (depth + 1) => terms = <<>>
        /\ target = 0 => [k \in 1..depth |-> FALSE] \in Elems(terms)

C3_Witness ==
    pc = "naturals_done" /\ depth = 4 /\ target = 5 /\ Len(terms) = 2

\* C4: for length 0, naturals returns the single empty vector when the
\* target is 0 and nothing otherwise; every returned vector has size 0.
C4_ZeroLength ==
    (pc = "naturals_done" /\ depth = 0) =>
        /\ \A k \in 1..Len(terms) : Len(terms[k]) = 0
        /\ target = 0 => terms = << <<>> >>
        /\ target > 0 => terms = <<>>

\* C5: every board a call of solve returns has state 0, all its columns
\* equal to their targets, and state of None is not 0.
C5_ReturnedBoardSolved ==
    /\ ret # None => (state(heap, ret, ver) = <<0>> /\ ColsMatch(heap[ret]))
    /\ state(heap, None, ver) # <<0>>

C5_Witness ==
    /\ pc = "solve" /\ Len(stack) = 2 /\ ret # None /\ ret # 1
    /\ \E c \in 1..N : ver[c] > 0

RowsConsecutive == \A k \in 1..Len(stack) : stack[k].row = k - 1

RECURSIVE Cost(_)
\* A bound on the steps of one call of solve on row r, its return included:
\* the entry, then per choice the iteration and, below the last row, the
\* nested call and the resumption, then the exhaustion of the loop.  A row
\* has at most 2^N choices.
Cost(r) == 2 + Pow2(N) * (IF r < N - 1 THEN 2 + Cost(r + 1) ELSE 1)

PerChoice(r) == IF r < N - 1 THEN 2 + Cost(r + 1) ELSE 1

\* The steps the call of frame f may still take itself, nested calls that
\* have not started included.
FrameRank(f) ==
    CASE f.pc = "enter" -> Cost(f.row)
      [] f.pc = "loop"  -> (Len(f.choices) - f.idx + 1) * PerChoice(f.row) + 1
      [] f.pc = "wait"  -> (Len(f.choices) - f.idx) * PerChoice(f.row) + 2

RECURSIVE StackRank(_)
StackRank(k) == IF k = 0 THEN 0 ELSE FrameRank(stack[k]) + StackRank(k - 1)

\* The variant of the run: a natural number that every step decreases.
Rank ==
    CASE pc = "main"  -> 2 + Cost(0)
      [] pc = "solve" -> 1 + StackRank(Len(stack))
      [] pc = "done"  -> 0

\* The guards of the steps: the run is never stuck before the end of main.
CanStep ==
    \/ pc = "main"
    \/ At("enter") \/ At("loop") \/ At("wait")
    \/ (pc = "solve" /\ stack = <<>>)

\* C6: the top-level solve terminates with a board or None: every step
\* decreases the natural number Rank and a run that has not reached the end
\* of main always has a next step; no more than N calls are ever nested
\* (one, the top-level call, when N = 0), and the row argument grows by one
\* at each recursive call.
C6_Terminates ==
    /\ [][Rank' < Rank]_vars
    /\ [](Rank >= 0 /\ (pc # "done" => CanStep))
    /\ [](pc = "done" => (stack = <<>> /\ (solution = None \/ solution \in 1..Len(heap))))
    /\ [](Len(stack) <= (IF N = 0 THEN 1 ELSE N))
    /\ []RowsConsecutive

C6_Witness == pc = "done" /\ N = 3 /\ Len(heap) > 4

\* C7: state returns 0 iff every column equals its target, a positive value
\* iff some column exceeds its target, and a negative value iff no column
\* exceeds and some column is below its target.
C7_StateClasses ==
    pc = "state_done" =>
        /\ Len(out) = 1
        /\ out[1] = 0 <=> ColsMatch(heap[1])
        /\ out[1] > 0 <=> ExceedsAny(heap[1])
        /\ out[1] < 0 <=> (~ExceedsAny(heap[1]) /\ BelowAny(heap[1]))

\* C8: a call of solve entered on a board with a column above its target
\* returns None at once: it never gets to the choices of its row.
C8_PruneOnExcess ==
    \A k \in 1..Len(stack) :
        ExceedsAny(stack[k].entry) => stack[k].pc = "enter"

\* C9: for N >= 1, at every call of solve 0 <= row <= N-1, the rows before
\* row are patterns of naturals for their targets and have those weighted
\* sums, and the rows from row on are all false.
C9_PartialAssignment ==
    (N >= 1 /\ At("enter")) =>
        LET f == Top
            board == heap[f.board]
        IN  /\ 0 <= f.row /\ f.row <= N - 1
            /\ Len(board) = N
            /\ \A r \in 0..(f.row - 1) :
                   /\ board[r + 1] \in Elems(naturals(hor[r + 1], N))
                   /\ Weighted(board[r + 1]) = hor[r + 1]
            /\ \A r \in f.row..(N - 1) : board[r + 1] = [c \in 1..N |-> FALSE]

C9_Witness ==
    /\ N = 3 /\ At("enter") /\ Top.row = 2
    /\ hor[1] = 3 /\ hor[2] = 1 /\ heap[Top.board][1] = <<FALSE, FALSE, TRUE>>

\* C10: solve never changes the board it was passed: the board of every
\* running call keeps the cell values it had on entry, and main's board
\* is all false throughout.
C10_BoardUnchanged ==
    /\ \A k \in 1..Len(stack) : heap[stack[k].board] = stack[k].entry
    /\ pc \in {"solve", "done"} => heap[1] = AllFalse(N)

C10_Witness ==
    /\ pc = "done" /\ solution = None /\ N = 3 /\ Len(heap) > 3
    /\ hor[1] = 3

====
